---- MODULE Spec2Model ----
(***************************************************************************)
(* A model of duplipy/replication.py: the synonym-augmentation pipeline,   *)
(* random word deletion, word shuffling and random cropping.               *)
(*                                                                         *)
(* Strings are sequences of one-character strings.  A Python value that    *)
(* reaches a function as an argument is a record [t, n, s]: its type tag,  *)
(* its numeric value and its characters.  Probabilities and random draws   *)
(* are counted in units of 1/Scale.  Times are counted in microseconds.    *)
(***************************************************************************)
EXTENDS Integers, Sequences, FiniteSets

VARIABLES op, frame, twin, file, file_out, rw, dw, sw, rc

vars == <<op, frame, twin, file, file_out, rw, dw, sw, rc>>

---------------------------------------------------------------------------
(* Bounds *)

MaxLen == 3

MaxFactor == 2

Scale == 2

MaxFault == 2

MaxSentences == 2

MaxDim == 2

---------------------------------------------------------------------------
(* Python values *)

PyNone == [t |-> "NoneType", n |-> 0, s |-> <<>>]

PyInt(k) == [t |-> "int", n |-> k, s |-> <<>>]

PyFloat(k) == [t |-> "float", n |-> k, s |-> <<>>]

PyStr(chars) == [t |-> "str", n |-> 0, s |-> chars]

Alphabet == {"a", "b", " "}

Whitespace == {" "}

SeqsUpTo(S, k) == UNION {[1..m -> S] : m \in 0..k}

Texts == SeqsUpTo(Alphabet, MaxLen)

Words == {w \in SeqsUpTo(Alphabet \ Whitespace, MaxLen) : w # <<>>}

---------------------------------------------------------------------------
(* str.split() with no argument: maximal runs of non-whitespace *)

RECURSIVE SplitFrom(_, _, _, _)
SplitFrom(s, i, cur, acc) ==
    IF i > Len(s)
    THEN IF cur = <<>> THEN acc ELSE Append(acc, cur)
    ELSE IF s[i] \in Whitespace
         THEN SplitFrom(s, i + 1, <<>>, IF cur = <<>> THEN acc ELSE Append(acc, cur))
         ELSE SplitFrom(s, i + 1, Append(cur, s[i]), acc)

Split(s) == SplitFrom(s, 1, <<>>, <<>>)

(* ' '.join(words) *)
RECURSIVE Join(_)
Join(words) ==
    IF words = <<>> THEN <<>>
    ELSE IF Len(words) = 1 THEN words[1]
    ELSE words[1] \o <<" ">> \o Join(Tail(words))

---------------------------------------------------------------------------
(* The lexical database: wordnet.synsets(word) as a list of senses, each   *)
(* a list of lemma names.  Lemma names never contain whitespace (a         *)
(* multi-word lemma is written with "_").                                   *)

Synsets(word) ==
    CASE word = <<"a">> -> << << <<"a">> >>, << <<"b">> >> >>
      [] word = <<"b">> -> << << <<"b", "b">>, <<"a", "_", "b">> >> >>
      [] OTHER -> <<>>

(* the nested loops of replace_word_with_synonym: all lemma names of all senses *)
RECURSIVE Synonyms_(_, _)
Synonyms_(synsets, acc) ==
    IF synsets = <<>> THEN acc
    ELSE Synonyms_(Tail(synsets), acc \o Head(synsets))

Synonyms(word) == Synonyms_(Synsets(word), <<>>)

PickSynonymKeepsWord(word, synonyms, choice) == word

PickSynonym(word, synonyms, choice) ==
    IF synonyms # <<>> THEN synonyms[choice] ELSE word

(* replace_word_with_synonym: ok = FALSE is a lookup that raises *)
ReplaceWordWithSynonym(word, ok, choice) ==
    IF ok THEN PickSynonym(word, Synonyms(word), choice) ELSE word

ChoicesFor(word) ==
    IF Synonyms(word) = <<>> THEN {1} ELSE 1..Len(Synonyms(word))

---------------------------------------------------------------------------
(* augment_text_with_synonyms: one call frame *)

NoLine == [kind |-> "none", processed |-> 0, total |-> 0, rate |-> 0]

IdleFrame ==
    [pc |-> "idle", text |-> PyNone, augmentation_factor |-> PyNone,
     probability |-> PyNone, progress |-> FALSE, fault_at |-> 0,
     tokens |-> <<>>, num_tokens |-> 0, processed_tokens |-> 0,
     variant |-> 0, idx |-> 0, augmented_tokens |-> <<>>,
     augmented_text |-> <<>>, elapsed_time |-> 0, tokens_per_sec |-> 0,
     stdout |-> NoLine, exc |-> "none", log |-> <<>>,
     outcome |-> "none", result |-> <<>>]

EnterAugment(text, factor, probability, progress, fault) ==
    [IdleFrame EXCEPT !.pc = "try", !.text = text, !.augmentation_factor = factor,
                      !.probability = probability, !.progress = progress,
                      !.fault_at = fault, !.outcome = "running"]

Raise(f, e) == [f EXCEPT !.pc = "except", !.exc = e]

(* lines 77-84 *)
BeginOf(f) ==
    IF f.probability.t = "NoneType" THEN Raise(f, "ValueError")
    ELSE IF f.text.t # "str" THEN Raise(f, "AttributeError")
    ELSE [f EXCEPT !.tokens = Split(f.text.s),
                   !.num_tokens = Len(Split(f.text.s)),
                   !.processed_tokens = 0,
                   !.pc = "loop"]

(* line 86-87: the next iteration of range(augmentation_factor) *)
NextVariantOf(f) ==
    IF f.augmentation_factor.t # "int" THEN Raise(f, "TypeError")
    ELSE IF f.variant < f.augmentation_factor.n
         THEN [f EXCEPT !.augmented_tokens = <<>>, !.idx = 1, !.pc = "token"]
         ELSE [f EXCEPT !.pc = "complete"]

ShouldReplaceInclusive(draw, probability) == draw <= probability

ShouldReplaceInverted(draw, probability) == draw >= probability

ShouldReplace(draw, probability) == draw < probability

ReportProgressClobbers(f, tick) ==
    [f EXCEPT !.elapsed_time = IF tick = 0 THEN 1 ELSE tick,
              !.augmented_tokens = <<>>]

(* lines 99-104 *)
ReportProgress(f, tick) ==
    LET elapsed == IF tick = 0 THEN 1 ELSE tick
        rate == (f.processed_tokens * 1000000) \div elapsed
    IN [f EXCEPT !.elapsed_time = elapsed,
                 !.tokens_per_sec = rate,
                 !.stdout = [kind |-> "progress", processed |-> f.processed_tokens,
                             total |-> f.num_tokens, rate |-> rate]]

(* lines 89-104, one token; line 106 when the tokens are exhausted *)
TokenOf(f, draw, ok, choice, tick) ==
    IF f.idx > f.num_tokens
    THEN [f EXCEPT !.augmented_text = Append(@, Join(f.augmented_tokens)),
                   !.variant = @ + 1, !.pc = "loop"]
    ELSE IF f.fault_at = f.processed_tokens + 1 THEN Raise(f, "MemoryError")
    ELSE IF f.probability.t # "float" THEN Raise(f, "TypeError")
    ELSE LET token == f.tokens[f.idx]
             hit == ShouldReplace(draw, f.probability.n)
             new == IF hit THEN ReplaceWordWithSynonym(token, ok, choice) ELSE token
             entry == IF ~hit THEN "kept" ELSE IF ok THEN "replaced" ELSE "lookup_failed"
             g == [f EXCEPT !.augmented_tokens = Append(@, new),
                            !.processed_tokens = @ + 1,
                            !.idx = @ + 1,
                            !.log = Append(@, entry)]
         IN IF g.progress THEN ReportProgress(g, tick) ELSE g

(* lines 108-111 and 117 *)
CompleteOf(f) ==
    [f EXCEPT !.stdout = IF f.progress
                         THEN [NoLine EXCEPT !.kind = "complete"] ELSE @,
              !.pc = "done", !.outcome = "returned", !.result = f.augmented_text]

ExceptReturnsPartial(f) == f.augmented_text

ExceptReturn(f) == <<>>

(* lines 113-115 *)
ExceptOf(f) ==
    [f EXCEPT !.stdout = [NoLine EXCEPT !.kind = "error"],
              !.pc = "done", !.outcome = "returned", !.result = ExceptReturn(f)]

AugStep(f, draw, ok, choice, tick) ==
    CASE f.pc = "try" -> BeginOf(f)
      [] f.pc = "loop" -> NextVariantOf(f)
      [] f.pc = "token" -> TokenOf(f, draw, ok, choice, tick)
      [] f.pc = "complete" -> CompleteOf(f)
      [] f.pc = "except" -> ExceptOf(f)
      [] OTHER -> f

---------------------------------------------------------------------------
(* The call of augment_text_with_synonyms and its steps.  frame is the     *)
(* call with progress=True; twin is a second call with the same arguments, *)
(* the same random draws and the same synonym choices, and progress=False. *)

Probabilities == {PyNone, PyStr(<<"a">>)} \cup {PyFloat(k) : k \in 0..Scale}

Factors == {PyStr(<<"a">>)} \cup {PyInt(k) : k \in 0..MaxFactor}

TextArgs == {PyNone} \cup {PyStr(t) : t \in Texts}

Draws == 0..(Scale - 1)

(* time.time() - start_time: no time has passed, or some has *)
Ticks == {0, 1}

NoFile == [exists |-> FALSE, content |-> <<>>]

NoOut == [outcome |-> "none", result |-> <<>>]

CallAugmentText ==
    /\ op = "none"
    /\ \E text \in TextArgs, factor \in Factors, probability \in Probabilities,
          fault \in 0..MaxFault :
          /\ frame' = EnterAugment(text, factor, probability, TRUE, fault)
          /\ twin' = EnterAugment(text, factor, probability, FALSE, fault)
    /\ op' = "augment_text"
    /\ UNCHANGED <<file, file_out, rw, dw, sw, rc>>

BeginAugment ==
    /\ frame.pc = "try"
    /\ frame' = BeginOf(frame)
    /\ twin' = AugStep(twin, 0, TRUE, 1, 0)
    /\ UNCHANGED <<op, file, file_out, rw, dw, sw, rc>>

NextVariant ==
    /\ frame.pc = "loop"
    /\ frame' = NextVariantOf(frame)
    /\ twin' = AugStep(twin, 0, TRUE, 1, 0)
    /\ UNCHANGED <<op, file, file_out, rw, dw, sw, rc>>

TokenStep ==
    /\ frame.pc = "token"
    /\ frame.idx <= frame.num_tokens
    /\ \E draw \in Draws, ok \in BOOLEAN, tick \in Ticks :
         \E choice \in ChoicesFor(frame.tokens[frame.idx]) :
            /\ frame' = TokenOf(frame, draw, ok, choice, tick)
            /\ twin' = AugStep(twin, draw, ok, choice, tick)
    /\ UNCHANGED <<op, file, file_out, rw, dw, sw, rc>>

EndVariant ==
    /\ frame.pc = "token"
    /\ frame.idx > frame.num_tokens
    /\ frame' = TokenOf(frame, 0, TRUE, 1, 0)
    /\ twin' = AugStep(twin, 0, TRUE, 1, 0)
    /\ UNCHANGED <<op, file, file_out, rw, dw, sw, rc>>

Complete ==
    /\ frame.pc = "complete"
    /\ frame' = CompleteOf(frame)
    /\ twin' = AugStep(twin, 0, TRUE, 1, 0)
    /\ UNCHANGED <<op, file, file_out, rw, dw, sw, rc>>

HandleException ==
    /\ frame.pc = "except"
    /\ frame' = ExceptOf(frame)
    /\ twin' = AugStep(twin, 0, TRUE, 1, 0)
    /\ UNCHANGED <<op, file, file_out, rw, dw, sw, rc>>

---------------------------------------------------------------------------
(* load_text_file and augment_file_with_synonyms *)

FileTexts == {<<>>, <<"a">>, <<" ", "b", "b">>}

Files == {NoFile} \cup {[exists |-> TRUE, content |-> t] : t \in FileTexts}

LoadFailureIsNone == PyNone

LoadFailure == PyStr(<<>>)

LoadTextFile(f) == IF f.exists THEN PyStr(f.content) ELSE LoadFailure

CallAugmentFile ==
    /\ op = "none"
    /\ \E f \in Files, factor \in Factors, probability \in Probabilities,
          fault \in 0..MaxFault :
          /\ file' = f
          /\ frame' = EnterAugment(LoadTextFile(f), factor, probability, TRUE, fault)
          /\ twin' = EnterAugment(LoadTextFile(f), factor, probability, FALSE, fault)
    /\ op' = "augment_file"
    /\ file_out' = [outcome |-> "running", result |-> <<>>]
    /\ UNCHANGED <<rw, dw, sw, rc>>

(* lines 152-156: the value of the inner call is returned as it is *)
ReturnAugmentFile ==
    /\ op = "augment_file"
    /\ file_out.outcome = "running"
    /\ frame.pc = "done"
    /\ file_out' = IF frame.outcome = "raised"
                   THEN [outcome |-> "returned", result |-> <<>>]
                   ELSE [outcome |-> "returned", result |-> frame.result]
    /\ UNCHANGED <<op, frame, twin, file, rw, dw, sw, rc>>

---------------------------------------------------------------------------
(* replace_word_with_synonym called on its own *)

NoReplace == [word |-> <<>>, ok |-> TRUE, result |-> <<>>, outcome |-> "none"]

CallReplaceWord ==
    /\ op = "none"
    /\ \E word \in Words, ok \in BOOLEAN :
         \E choice \in ChoicesFor(word) :
            rw' = [word |-> word, ok |-> ok,
                   result |-> ReplaceWordWithSynonym(word, ok, choice),
                   outcome |-> "returned"]
    /\ op' = "replace_word"
    /\ UNCHANGED <<frame, twin, file, file_out, dw, sw, rc>>

---------------------------------------------------------------------------
(* delete_random_word *)

DelAlphabet == {"a", ",", " "}

DelTexts == SeqsUpTo(DelAlphabet, MaxLen)

(* nltk.word_tokenize on letters, commas and blanks: the punctuation rules *)
(* ([:,])([^\d]) -> " \1 \2" and ([:,])$ -> " \1 ", then a whitespace      *)
(* split.  The first rule consumes the character after the comma.          *)
RECURSIVE PadCommas(_, _)
PadCommas(s, i) ==
    IF i > Len(s) THEN <<>>
    ELSE IF s[i] = "," /\ i < Len(s)
         THEN <<" ", ",", " ", s[i + 1]>> \o PadCommas(s, i + 2)
    ELSE IF s[i] = ","
         THEN <<" ", ",", " ">>
    ELSE <<s[i]>> \o PadCommas(s, i + 1)

WordTokenize(s) == Split(PadCommas(s, 1))

(* list.pop(i), i counted from 0 *)
Pop(words, i) == SubSeq(words, 1, i) \o SubSeq(words, i + 2, Len(words))

ShouldDeleteAny(words) == Len(words) >= 1

ShouldDelete(words) == Len(words) > 1

(* random.randint(a, b): both ends included *)
RandInt(a, b) == a..b

NoDelete ==
    [text |-> <<>>, tokenized |-> FALSE, words0 |-> <<>>, pos |-> -1,
     words |-> <<>>, result |-> <<>>, outcome |-> "none"]

CallDeleteRandomWord ==
    /\ op = "none"
    /\ \E text \in DelTexts, tokenized \in BOOLEAN :
         IF ~tokenized
         THEN dw' = [NoDelete EXCEPT !.text = text, !.result = text,
                                     !.outcome = "returned"]
         ELSE LET words == WordTokenize(text)
              IN IF ShouldDelete(words)
                 THEN \E pos \in RandInt(0, Len(words) - 1) :
                        dw' = [text |-> text, tokenized |-> TRUE, words0 |-> words,
                               pos |-> pos, words |-> Pop(words, pos),
                               result |-> Join(Pop(words, pos)),
                               outcome |-> "returned"]
                 ELSE dw' = [text |-> text, tokenized |-> TRUE, words0 |-> words,
                             pos |-> -1, words |-> words,
                             result |-> Join(words), outcome |-> "returned"]
    /\ op' = "delete_random_word"
    /\ UNCHANGED <<frame, twin, file, file_out, rw, sw, rc>>

---------------------------------------------------------------------------
(* shuffle_words *)

(* line 28, "import tqdm": the name tqdm is bound to the module *)
TqdmBinding == "module"

Callable(binding) == binding \in {"function", "class"}

Sentences == {<<>>, <<"a">>, <<"a", " ", "b">>, <<"b", " ", " ", "a", " ", "a">>}

SentenceLists == SeqsUpTo(Sentences, MaxSentences)

SampleOrders(n) == {p \in [1..n -> 1..n] : \A i, j \in 1..n : p[i] = p[j] => i = j}

(* random.sample(words, len(words)) joined by blanks *)
ShuffledSentences(sentence) ==
    LET words == Split(sentence)
    IN {Join([i \in 1..Len(words) |-> words[p[i]]]) : p \in SampleOrders(Len(words))}

RECURSIVE ShuffleResults(_)
ShuffleResults(text) ==
    IF text = <<>> THEN {<<>>}
    ELSE {<<h>> \o t : h \in ShuffledSentences(Head(text)), t \in ShuffleResults(Tail(text))}

NoShuffle == [text |-> <<>>, outcome |-> "none", exc |-> "none", result |-> <<>>]

CallShuffleWords ==
    /\ op = "none"
    /\ \E text \in SentenceLists :
         IF Callable(TqdmBinding)
         THEN \E shuffled_text \in ShuffleResults(text) :
                sw' = [text |-> text, outcome |-> "returned", exc |-> "none",
                       result |-> shuffled_text]
         ELSE sw' = [text |-> text, outcome |-> "raised", exc |-> "TypeError",
                     result |-> <<>>]
    /\ op' = "shuffle_words"
    /\ UNCHANGED <<frame, twin, file, file_out, rw, dw, rc>>

---------------------------------------------------------------------------
(* random_crop and crop: an image is its size *)

Dims == 0..MaxDim

CropSizes == 0..(MaxDim + 1)

CropOffsetMaxWholeSide(dim, sz) == dim

CropOffsetMax(dim, sz) == dim - sz

(* PIL Image.crop(box): the region's size *)
Crop(image, box) == [width |-> box.right - box.left, height |-> box.lower - box.upper]

NoBox == [left |-> 0, upper |-> 0, right |-> 0, lower |-> 0]

NoCrop ==
    [image |-> [width |-> 0, height |-> 0], size |-> <<0, 0>>, box |-> NoBox,
     outcome |-> "none", exc |-> "none", result |-> [width |-> 0, height |-> 0]]

CallRandomCrop ==
    /\ op = "none"
    /\ \E width \in Dims, height \in Dims, w \in CropSizes, h \in CropSizes :
         LET image == [width |-> width, height |-> height]
             size == <<w, h>>
             lefts == RandInt(0, CropOffsetMax(width, size[1]))
             uppers == RandInt(0, CropOffsetMax(height, size[2]))
         IN IF lefts = {} \/ uppers = {}
            THEN rc' = [NoCrop EXCEPT !.image = image, !.size = size,
                                      !.outcome = "raised", !.exc = "ValueError"]
            ELSE \E left \in lefts, upper \in uppers :
                   LET box == [left |-> left, upper |-> upper,
                               right |-> left + size[1], lower |-> upper + size[2]]
                   IN rc' = [image |-> image, size |-> size, box |-> box,
                             outcome |-> "returned", exc |-> "none",
                             result |-> Crop(image, box)]
    /\ op' = "random_crop"
    /\ UNCHANGED <<frame, twin, file, file_out, rw, dw, sw>>

---------------------------------------------------------------------------

Init ==
    /\ op = "none"
    /\ frame = IdleFrame
    /\ twin = IdleFrame
    /\ file = NoFile
    /\ file_out = NoOut
    /\ rw = NoReplace
    /\ dw = NoDelete
    /\ sw = NoShuffle
    /\ rc = NoCrop

Next ==
    \/ CallReplaceWord
    \/ CallAugmentText
    \/ CallAugmentFile
    \/ BeginAugment
    \/ NextVariant
    \/ TokenStep
    \/ EndVariant
    \/ Complete
    \/ HandleException
    \/ ReturnAugmentFile
    \/ CallDeleteRandomWord
    \/ CallShuffleWords
    \/ CallRandomCrop

Spec == Init /\ [][Next]_vars

---------------------------------------------------------------------------
(* Properties *)

Frames == {frame, twin}

Copies(n, x) == [i \in 1..n |-> x]

(* the call's arguments are a string, a count and a number, and nothing fails under it *)
WellTyped(f) ==
    /\ f.text.t = "str"
    /\ f.augmentation_factor.t = "int"
    /\ f.probability.t = "float"
    /\ f.fault_at = 0

(* all lemma names over all senses of the word *)
SynonymSet(word) ==
    UNION {{Synsets(word)[k][i] : i \in 1..Len(Synsets(word)[k])} : k \in 1..Len(Synsets(word))}

(* C1: augment_text_with_synonyms called with probability=None raises the
   ValueError to its caller, with no token processed and no variant built,
   and returns no value. *)
C1_NoneProbabilityRaises ==
    \A f \in Frames :
        (f.pc = "done" /\ f.probability.t = "NoneType")
            => /\ f.outcome = "raised"
               /\ f.processed_tokens = 0
               /\ f.augmented_text = <<>>

(* C2: with probability 0, a well-typed call with factor n returns exactly n
   elements, each the whitespace-delimited tokens of the text joined by
   single blanks. *)
C2_ProbabilityZeroCopies ==
    \A f \in Frames :
        (f.pc = "done" /\ WellTyped(f) /\ f.probability.n = 0)
            => /\ f.outcome = "returned"
               /\ f.result = Copies(f.augmentation_factor.n, Join(Split(f.text.s)))

C2_Witness ==
    /\ frame.pc = "done" /\ WellTyped(frame) /\ frame.probability.n = 0
    /\ frame.augmentation_factor.n = 2
    /\ frame.num_tokens = 2
    /\ Len(frame.result) = 2

(* C3: with probability 1, a well-typed call with factor n returns n variants;
   each has as many token positions as the source, and position i holds the
   result of synonym substitution on source token i: a member of the token's
   synonym set, or the token itself when the set is empty or the lookup
   failed.  No position is kept without a call of the substitution. *)
C3_ProbabilityOneSubstitutesAll ==
    \A f \in Frames :
        (f.pc = "done" /\ WellTyped(f) /\ f.probability.n = Scale)
            => LET src == Split(f.text.s)
                   k == Len(src)
                   n == f.augmentation_factor.n
               IN /\ f.outcome = "returned"
                  /\ Len(f.result) = n
                  /\ Len(f.log) = n * k
                  /\ \A v \in 1..n :
                       LET toks == Split(f.result[v])
                       IN /\ Len(toks) = k
                          /\ \A i \in 1..k :
                               LET entry == f.log[(v - 1) * k + i]
                               IN /\ entry # "kept"
                                  /\ entry = "lookup_failed" => toks[i] = src[i]
                                  /\ entry = "replaced" =>
                                       IF SynonymSet(src[i]) = {}
                                       THEN toks[i] = src[i]
                                       ELSE toks[i] \in SynonymSet(src[i])

C3_Witness ==
    /\ frame.pc = "done" /\ WellTyped(frame) /\ frame.probability.n = Scale
    /\ frame.augmentation_factor.n = 2
    /\ frame.tokens = << <<"a">>, <<"b">> >>
    /\ frame.result[1] = <<"b", " ", "a", "_", "b">>
    /\ frame.result[2] = <<"a", " ", "b">>
    /\ frame.log[4] = "lookup_failed"

(* C4: an exception other than the None-probability ValueError raised inside
   augment_text_with_synonyms does not reach the caller: the call returns the
   empty list, also when variants had been built before the exception. *)
C4_OtherExceptionsReturnEmpty ==
    \A f \in Frames :
        (f.pc = "done" /\ f.exc \in {"AttributeError", "TypeError", "MemoryError"})
            => /\ f.outcome = "returned"
               /\ f.result = <<>>

C4_Witness ==
    /\ frame.pc = "done"
    /\ frame.exc = "MemoryError"
    /\ Len(frame.augmented_text) >= 1
    /\ frame.result = <<>>

(* C5: replace_word_with_synonym returns a member of the word's synonym set
   when the set is not empty, and the word itself when the set is empty or
   the lookup raises; it never raises. *)
C5_SynonymOrWord ==
    rw.outcome # "none"
        => /\ rw.outcome = "returned"
           /\ ~rw.ok => rw.result = rw.word
           /\ (rw.ok /\ SynonymSet(rw.word) # {}) => rw.result \in SynonymSet(rw.word)
           /\ (rw.ok /\ SynonymSet(rw.word) = {}) => rw.result = rw.word

C5_Witness ==
    /\ rw.outcome = "returned"
    /\ rw.ok
    /\ rw.word = <<"b">>
    /\ rw.result = <<"a", "_", "b">>

(* C6: delete_random_word on a text of k > 1 tokens returns k-1 tokens: the
   tokens of the text without one position in 0..k-1, in their order; on a
   text of one token it returns that token; on the empty text it returns the
   empty string. *)
C6_DeleteOneWord ==
    dw.outcome # "none"
        => /\ dw.outcome = "returned"
           /\ dw.text = <<>> => dw.result = <<>>
           /\ dw.tokenized =>
                LET toks == WordTokenize(dw.text)
                    k == Len(toks)
                IN /\ k > 1 =>
                        /\ dw.pos \in 0..(k - 1)
                        /\ Len(dw.words) = k - 1
                        /\ \A i \in 1..(k - 1) :
                             dw.words[i] = IF i <= dw.pos THEN toks[i] ELSE toks[i + 1]
                        /\ dw.result = Join(dw.words)
                   /\ k = 1 => dw.result = toks[1]

C6_Witness ==
    /\ dw.outcome = "returned"
    /\ dw.tokenized
    /\ dw.text = <<"a", ",", "a">>
    /\ dw.pos = 2
    /\ dw.result = <<"a", " ", ",">>

(* C7: the progress flag does not change the result: the call with
   progress=True and the call with progress=False, given the same arguments,
   draws and synonym choices, go through the same control states with the
   same tokens and variants and return identical lists. *)
C7_ProgressDoesNotAlterResult ==
    /\ frame.pc = twin.pc
    /\ frame.tokens = twin.tokens
    /\ frame.augmented_tokens = twin.augmented_tokens
    /\ frame.augmented_text = twin.augmented_text
    /\ frame.outcome = twin.outcome
    /\ frame.result = twin.result

C7_Witness ==
    /\ frame.pc = "done" /\ twin.pc = "done"
    /\ frame.progress /\ ~twin.progress
    /\ frame.stdout.kind = "complete" /\ twin.stdout.kind = "none"
    /\ frame.tokens_per_sec > 0
    /\ Len(frame.result) = 2
    /\ frame.result[1] # frame.result[2]

(* b is a reordering of a: the same words, each as many times *)
SameWords(a, b) ==
    /\ Len(a) = Len(b)
    /\ \A w \in {a[i] : i \in 1..Len(a)} \cup {b[i] : i \in 1..Len(b)} :
         Cardinality({i \in 1..Len(a) : a[i] = w}) = Cardinality({i \in 1..Len(b) : b[i] = w})

(* C8: shuffle_words on a list of sentences returns a list of the same
   length whose i-th element is the words of the i-th sentence in some
   order, joined by single blanks. *)
C8_ShuffleReturnsPermutations ==
    sw.outcome # "none"
        => /\ sw.outcome = "returned"
           /\ Len(sw.result) = Len(sw.text)
           /\ \A i \in 1..Len(sw.text) :
                /\ SameWords(Split(sw.text[i]), Split(sw.result[i]))
                /\ sw.result[i] = Join(Split(sw.result[i]))

(* C9: random_crop of an image of size (W, H) to a size (w, h) with
   0 <= w <= W and 0 <= h <= H takes a box with 0 <= left,
   right = left + w <= W, 0 <= upper, lower = upper + h <= H, and returns an
   image of size (w, h). *)
C9_CropInsideImage ==
    (rc.outcome # "none" /\ rc.size[1] <= rc.image.width /\ rc.size[2] <= rc.image.height)
        => /\ rc.outcome = "returned"
           /\ 0 <= rc.box.left
           /\ rc.box.right = rc.box.left + rc.size[1]
           /\ rc.box.right <= rc.image.width
           /\ 0 <= rc.box.upper
           /\ rc.box.lower = rc.box.upper + rc.size[2]
           /\ rc.box.lower <= rc.image.height
           /\ rc.result = [width |-> rc.size[1], height |-> rc.size[2]]

C9_Witness ==
    /\ rc.outcome = "returned"
    /\ rc.image = [width |-> 2, height |-> 2]
    /\ rc.size = <<1, 1>>
    /\ rc.box = [left |-> 1, upper |-> 1, right |-> 2, lower |-> 2]

(* the call of augment_file_with_synonyms has returned for a file that could
   not be read, with a probability that is not None and a count n *)
MissingFileDone ==
    /\ op = "augment_file"
    /\ ~file.exists
    /\ file_out.outcome # "running"
    /\ frame.probability.t # "NoneType"
    /\ frame.augmentation_factor.t = "int"

(* C10 as stated: augment_file_with_synonyms on a file that cannot be read,
   with a probability that is not None and a factor n, raises nothing and
   returns exactly n empty strings, and does not return the empty list. *)
C10_MissingFileNeverEmptyList ==
    MissingFileDone
        => /\ file_out.outcome = "returned"
           /\ file_out.result = Copies(frame.augmentation_factor.n, <<>>)
           /\ file_out.result # <<>>

(* C10 amended: augment_file_with_synonyms on a file that cannot be read,
   with a probability that is not None and a factor n >= 0, raises nothing
   and returns exactly n empty strings; the list is not empty when n >= 1,
   and is the empty list when n = 0. *)
C10_MissingFileEmptyStrings ==
    MissingFileDone
        => /\ file_out.outcome = "returned"
           /\ file_out.result = Copies(frame.augmentation_factor.n, <<>>)
           /\ frame.augmentation_factor.n >= 1 => file_out.result # <<>>
           /\ frame.augmentation_factor.n = 0 => file_out.result = <<>>

C10_Witness ==
    /\ MissingFileDone
    /\ frame.augmentation_factor.n = 2
    /\ file_out.result = << <<>>, <<>> >>

====
